---------------------------- MODULE Spec2Model ----------------------------
(***************************************************************************)
(* Invoice manager REST backend (server.js, "enhanced" version with JWT    *)
(* authentication).  Three whole-file JSON collections (users, clients,    *)
(* invoices), a login/register pair that issues 24h tokens, and protected  *)
(* client / invoice routes that maintain the denormalised aggregates       *)
(* invoiceCount and totalPaid on the client record.                        *)
(*                                                                         *)
(* In Spec, SpecClients, SpecInvoices and SpecAuth every request is one     *)
(* atomic action: the handler runs from its first read to its response     *)
(* with no other request in between and no failing write; Finish then      *)
(* returns the server to idle.  In SpecSteps the handlers of the writing    *)
(* routes run await by await on two connections, a save can reject and the *)
(* process can exit.  Time is counted in whole hours.                      *)
(***************************************************************************)
EXTENDS Integers, Sequences, FiniteSets, TLC

VARIABLES
    users,      \* data/users.json    : sequence of [id, email, password]
    clients,    \* data/clients.json  : sequence of [id, email, userId, invoiceCount, totalPaid]
    invoices,   \* data/invoices.json : sequence of [id, userId, clientId, total, taxAmount]
    now,        \* the server clock, in hours
    issued,     \* tokens handed out by login / register and held by callers
    request,    \* the last request, as far as the server looked at it:
                \* [route, token] and, past authenticateToken, its parameters
    response,   \* the response to the last request: [status, body]
    io,         \* the file operations the last request performed, in order
    budget,     \* how many more requests that write a collection are explored
    inflight    \* per connection, the handler suspended at an await with its
                \* local variables (used where handlers run step by step)

vars == <<users, clients, invoices, now, issued, request, response, io, budget, inflight>>

----------------------------------------------------------------------------
(* Bounds of the model *)

MaxClients == 2      \* a client is added while fewer records are stored
MaxInvoices == 2     \* an invoice is added while fewer records are stored
MaxUpdates == 4      \* writing requests explored by Spec and SpecAuth
MaxClientUpdates == 5    \* writing requests explored by SpecClients
MaxInvoiceUpdates == 6   \* writing requests explored by SpecInvoices
MaxUsers == 3        \* an account is added while fewer are stored
MaxIssueTime == 1    \* tokens are issued while the clock is at most this
MaxTokens == 2       \* a token is issued while fewer are held
MaxNow == 26         \* the clock runs from 0 to MaxNow hours
MaxRequests == 2     \* handlers started in SpecSteps

----------------------------------------------------------------------------
(* Data files *)

CLIENTS_FILE == "data/clients.json"
INVOICES_FILE == "data/invoices.json"
USERS_FILE == "data/users.json"
JWT_SECRET == "fallback-secret-change-in-production"

\* expiresIn: '24h'
ExpiresIn == 24

\* Array.prototype.find: index of the first element satisfying P, 0 when none
Find(s, P(_)) ==
    LET I == {i \in DOMAIN s : P(s[i])}
    IN  IF I = {} THEN 0 ELSE CHOOSE i \in I : \A j \in I : i <= j

\* Array.prototype.filter
Filter(s, P(_)) == SelectSeq(s, P)

----------------------------------------------------------------------------
(* Strings that the validators inspect are sequences of characters *)

UpperCase == <<"A","B","C","D","E","F","G","H","I","J","K","L","M",
               "N","O","P","Q","R","S","T","U","V","W","X","Y","Z">>
LowerCase == <<"a","b","c","d","e","f","g","h","i","j","k","l","m",
               "n","o","p","q","r","s","t","u","v","w","x","y","z">>

\* String.prototype.toLowerCase on one character
LowerCaseOf == [c \in {UpperCase[i] : i \in DOMAIN UpperCase} |->
                   LowerCase[CHOOSE i \in DOMAIN UpperCase : UpperCase[i] = c]]
toLowerCase(c) == IF c \in DOMAIN LowerCaseOf THEN LowerCaseOf[c] ELSE c

\* express-validator normalizeEmail() with its default options, on addresses
\* without dots or a +subaddress in the local part: local part and domain
\* are lower-cased
normalizeEmail(e) == [i \in DOMAIN e |-> toLowerCase(e[i])]

\* express-validator isEmail(): one "@", something before it, a dotted
\* domain after it
isEmail(e) ==
    LET at == {i \in DOMAIN e : e[i] = "@"}
    IN  /\ Cardinality(at) = 1
        /\ \E i \in at : /\ i > 1
                         /\ \E j \in DOMAIN e : j > i + 1 /\ j < Len(e) /\ e[j] = "."

\* isLength({ min: 6 })
MinPasswordLength == 6
isPassword(p) == Len(p) >= MinPasswordLength

\* bcrypt.hash(password, 10) and bcrypt.compare(password, hash): one-way,
\* the comparison succeeds exactly on the password that was hashed
bcryptHash(p) == <<"$2a$10$">> \o p
bcryptCompare(p, h) == h = bcryptHash(p)

\* the account written by ensureDataDir on first run
DemoEmail == <<"t","e","m","p","U","s","e","r","@","g","m","a","i","l",".","c","o","m">>
DemoPassword == <<"t","e","m","p","P","a","s","s","1","2","3">>
DemoUser == [id |-> 1, email |-> DemoEmail, password |-> bcryptHash(DemoPassword)]

----------------------------------------------------------------------------
(* Tokens *)

NoToken == [kind |-> "none"]              \* no Authorization header, or no second word in it
MalformedToken == [kind |-> "malformed"]  \* a second word that is no JWT

\* jwt.sign({ id, email }, secret, { expiresIn: '24h' }) at time t
jwtSign(id, email, secret, t) ==
    [kind |-> "jwt", id |-> id, email |-> email, iat |-> t, exp |-> t + ExpiresIn,
     sig |-> secret]

\* jwt.verify with ignoreExpiration
jwtVerifyIgnoreExpiration(token, secret, t) ==
    /\ token.kind = "jwt"
    /\ token.sig = secret

\* jwt.verify with the expiry compared by > instead of >=
jwtVerifyInclusive(token, secret, t) ==
    /\ token.kind = "jwt"
    /\ token.sig = secret
    /\ t <= token.exp

\* jwt.verify(token, secret) at time t: a well-formed token, signed with
\* the secret, whose exp lies in the future (rejected once t >= exp)
jwtVerify(token, secret, t) ==
    /\ token.kind = "jwt"
    /\ token.sig = secret
    /\ t < token.exp

\* a token for account 1 that a caller signs at time t with a key of their own
ForgedToken(t) == jwtSign(1, DemoEmail, "not-the-secret", t)

\* authenticateToken: the response that ends the request, or next()
authenticateToken(token, t) ==
    IF token.kind = "none"
    THEN [next |-> FALSE,
          response |-> [status |-> 401, body |-> [error |-> "Access token required"]]]
    ELSE IF ~jwtVerify(token, JWT_SECRET, t)
    THEN [next |-> FALSE,
          response |-> [status |-> 403, body |-> [error |-> "Invalid or expired token"]]]
    ELSE [next |-> TRUE, response |-> [status |-> 0, body |-> [error |-> ""]]]

\* what a caller can put in the Authorization header
Presentable == issued \cup {NoToken, MalformedToken, ForgedToken(now)}

Read(f) == <<"read", f>>
Write(f) == <<"write", f>>

----------------------------------------------------------------------------
(* Request bodies *)

ClientEmail == <<"a","@","x",".","c","o">>
NotAnEmail == <<"a","x",".","c","o">>

\* POST /api/clients: the body's email is the field the validators can refuse
ClientBodies == {[email |-> ClientEmail], [email |-> NotAnEmail]}

\* POST /api/invoices: clientId, total and taxAmount; the last body fails
\* isInt({ min: 1 })
Amounts == {[total |-> 100, taxAmount |-> 10], [total |-> 250, taxAmount |-> 0]}
InvoiceBodies ==
    {[clientId |-> c, total |-> a.total, taxAmount |-> a.taxAmount] :
        c \in 1..MaxClients, a \in Amounts}
    \cup {[clientId |-> 0, total |-> 100, taxAmount |-> 10]}

\* validateClient + handleValidationErrors
validateClient(body) == isEmail(body.email)

\* validateInvoice + handleValidationErrors
validateInvoice(body) == body.clientId >= 1

ValidationFailed == [status |-> 400, body |-> [error |-> "Validation failed"]]

NoRequest == [route |-> "none", token |-> NoToken]
NoResponse == [status |-> 0, body |-> [error |-> ""]]

\* the server is between requests
Idle == request = NoRequest

\* a request that ends before its handler: nothing is read or written
Reject(req, resp) ==
    /\ request' = req
    /\ response' = resp
    /\ io' = <<>>
    /\ UNCHANGED <<users, clients, invoices, now, issued, budget, inflight>>

----------------------------------------------------------------------------
(* Client routes *)

\* GET /api/clients: the array sent back to caller uid
ClientList(cs, uid) == cs

GetClients ==
    /\ Idle
    /\ \E token \in Presentable :
         LET req == [route |-> "GET /api/clients", token |-> token]
             auth == authenticateToken(token, now)
         IN  IF ~auth.next THEN Reject(req, auth.response)
             ELSE /\ request' = req
                  /\ response' = [status |-> 200,
                                  body |-> [data |-> ClientList(clients, token.id)]]
                  /\ io' = <<Read(CLIENTS_FILE)>>
                  /\ UNCHANGED <<users, clients, invoices, now, issued, budget, inflight>>

\* POST /api/clients: the record appended for caller uid, email being the
\* normalised address of the body
NewClient(cs, email, uid) ==
    [id |-> Len(cs) + 1, email |-> email, invoiceCount |-> 0, totalPaid |-> 0,
     userId |-> uid]

PostClients ==
    /\ Idle
    /\ \E token \in Presentable :
         LET route == "POST /api/clients"
             auth == authenticateToken(token, now)
         IN  IF ~auth.next THEN Reject([route |-> route, token |-> token], auth.response)
             ELSE \E body \in ClientBodies :
                  LET req == [route |-> route, token |-> token, body |-> body]
                      newClient == NewClient(clients, normalizeEmail(body.email), token.id)
                  IN  IF ~validateClient(body) THEN Reject(req, ValidationFailed)
                      ELSE
                      /\ budget > 0
                      /\ Len(clients) < MaxClients
                      /\ request' = req
                      /\ clients' = Append(clients, newClient)
                      /\ response' = [status |-> 201,
                                      body |-> [success |-> TRUE, client |-> newClient]]
                      /\ io' = <<Read(CLIENTS_FILE), Write(CLIENTS_FILE)>>
                      /\ budget' = budget - 1
                      /\ UNCHANGED <<users, invoices, now, issued, inflight>>

\* DELETE /api/clients/:id : clients.some(c => c.id === clientId && c.userId === req.user.id)
clientExists(cs, clientId, uid) ==
    \E i \in DOMAIN cs : cs[i].id = clientId /\ cs[i].userId = uid

\* DELETE /api/clients/:id : clients.filter(c => c.id !== clientId)
updatedClients(cs, clientId, uid) == Filter(cs, LAMBDA c : c.id # clientId)

\* a deletion that also removes the invoices carrying the client's id
DeleteClientCascading ==
    /\ Idle
    /\ \E token \in Presentable :
         LET route == "DELETE /api/clients/:id"
             auth == authenticateToken(token, now)
         IN  IF ~auth.next THEN Reject([route |-> route, token |-> token], auth.response)
             ELSE \E clientId \in 1..MaxClients :
                  LET req == [route |-> route, token |-> token, id |-> clientId]
                  IN  IF ~clientExists(clients, clientId, token.id)
                      THEN /\ request' = req
                           /\ response' = [status |-> 404,
                                           body |-> [error |-> "Client not found"]]
                           /\ io' = <<Read(CLIENTS_FILE)>>
                           /\ UNCHANGED <<users, clients, invoices, now, issued, budget, inflight>>
                      ELSE /\ budget > 0
                           /\ request' = req
                           /\ clients' = updatedClients(clients, clientId, token.id)
                           /\ response' = [status |-> 200, body |-> [success |-> TRUE]]
                           /\ io' = <<Read(CLIENTS_FILE), Write(CLIENTS_FILE)>>
                           /\ invoices' = SelectSeq(invoices, LAMBDA inv : inv.clientId # clientId)
                           /\ budget' = budget - 1
                           /\ UNCHANGED <<users, now, issued, inflight>>

DeleteClient ==
    /\ Idle
    /\ \E token \in Presentable :
         LET route == "DELETE /api/clients/:id"
             auth == authenticateToken(token, now)
         IN  IF ~auth.next THEN Reject([route |-> route, token |-> token], auth.response)
             ELSE \E clientId \in 1..MaxClients :
                  LET req == [route |-> route, token |-> token, id |-> clientId]
                  IN  IF ~clientExists(clients, clientId, token.id)
                      THEN /\ request' = req
                           /\ response' = [status |-> 404,
                                           body |-> [error |-> "Client not found"]]
                           /\ io' = <<Read(CLIENTS_FILE)>>
                           /\ UNCHANGED <<users, clients, invoices, now, issued, budget, inflight>>
                      ELSE /\ budget > 0
                           /\ request' = req
                           /\ clients' = updatedClients(clients, clientId, token.id)
                           /\ response' = [status |-> 200, body |-> [success |-> TRUE]]
                           /\ io' = <<Read(CLIENTS_FILE), Write(CLIENTS_FILE)>>
                           /\ budget' = budget - 1
                           /\ UNCHANGED <<users, invoices, now, issued, inflight>>

----------------------------------------------------------------------------
(* Invoice routes *)

\* the list without the owner filter
userInvoicesOfAll(invs, uid) == invs

\* GET /api/invoices: invoices.filter(inv => inv.userId === req.user.id)
userInvoices(invs, uid) == Filter(invs, LAMBDA inv : inv.userId = uid)

GetInvoices ==
    /\ Idle
    /\ \E token \in Presentable :
         LET req == [route |-> "GET /api/invoices", token |-> token]
             auth == authenticateToken(token, now)
         IN  IF ~auth.next THEN Reject(req, auth.response)
             ELSE /\ request' = req
                  /\ response' = [status |-> 200,
                                  body |-> [data |-> userInvoices(invoices, token.id)]]
                  /\ io' = <<Read(INVOICES_FILE)>>
                  /\ UNCHANGED <<users, clients, invoices, now, issued, budget, inflight>>

\* POST /api/invoices: the record appended for caller uid
NewInvoice(invs, body, uid) ==
    [id |-> Len(invs) + 1, clientId |-> body.clientId, total |-> body.total,
     taxAmount |-> body.taxAmount, userId |-> uid]

\* POST /api/invoices:
\* clients.find(c => c.id === newInvoice.clientId && c.userId === req.user.id)
CreatedInvoiceClient(cs, inv, uid) ==
    Find(cs, LAMBDA c : c.id = inv.clientId /\ c.userId = uid)

\* client.invoiceCount++; client.totalPaid += newInvoice.total
applyInvoiceCreated(cs, i, total) ==
    [cs EXCEPT ![i].invoiceCount = @ + 1, ![i].totalPaid = @ + total]

PostInvoices ==
    /\ Idle
    /\ \E token \in Presentable :
         LET route == "POST /api/invoices"
             auth == authenticateToken(token, now)
         IN  IF ~auth.next THEN Reject([route |-> route, token |-> token], auth.response)
             ELSE \E body \in InvoiceBodies :
                  LET req == [route |-> route, token |-> token, body |-> body]
                      newInvoice == NewInvoice(invoices, body, token.id)
                      client == CreatedInvoiceClient(clients, newInvoice, token.id)
                  IN  IF ~validateInvoice(body) THEN Reject(req, ValidationFailed)
                      ELSE
                      /\ budget > 0
                      /\ Len(invoices) < MaxInvoices
                      /\ request' = req
                      /\ invoices' = Append(invoices, newInvoice)
                      /\ clients' = IF client # 0
                                    THEN applyInvoiceCreated(clients, client, newInvoice.total)
                                    ELSE clients
                      /\ response' = [status |-> 201,
                                      body |-> [success |-> TRUE, invoice |-> newInvoice]]
                      /\ io' = <<Read(INVOICES_FILE), Read(CLIENTS_FILE), Write(INVOICES_FILE)>>
                               \o (IF client # 0 THEN <<Write(CLIENTS_FILE)>> ELSE <<>>)
                      /\ budget' = budget - 1
                      /\ UNCHANGED <<users, now, issued, inflight>>

\* the lookup without the owner test
FindInvoiceAnyOwner(invs, invoiceId, uid) ==
    Find(invs, LAMBDA inv : inv.id = invoiceId)

\* DELETE /api/invoices/:id :
\* invoices.find(inv => inv.id === invoiceId && inv.userId === req.user.id)
FindInvoice(invs, invoiceId, uid) ==
    Find(invs, LAMBDA inv : inv.id = invoiceId /\ inv.userId = uid)

\* DELETE /api/invoices/:id : clients.find(c => c.id === invoice.clientId)
DeletedInvoiceClient(cs, inv) == Find(cs, LAMBDA c : c.id = inv.clientId)

\* client.invoiceCount--; client.totalPaid -= invoice.total
applyInvoiceDeleted(cs, i, total) ==
    [cs EXCEPT ![i].invoiceCount = @ - 1, ![i].totalPaid = @ - total]

\* DELETE /api/invoices/:id : invoices.filter(inv => inv.id !== invoiceId)
updatedInvoices(invs, invoiceId) == Filter(invs, LAMBDA inv : inv.id # invoiceId)

DeleteInvoice ==
    /\ Idle
    /\ \E token \in Presentable :
         LET route == "DELETE /api/invoices/:id"
             auth == authenticateToken(token, now)
         IN  IF ~auth.next THEN Reject([route |-> route, token |-> token], auth.response)
             ELSE \E invoiceId \in 1..MaxInvoices :
                  LET req == [route |-> route, token |-> token, id |-> invoiceId]
                      found == FindInvoice(invoices, invoiceId, token.id)
                  IN  IF found = 0
                      THEN /\ request' = req
                           /\ response' = [status |-> 404,
                                           body |-> [error |-> "Invoice not found"]]
                           /\ io' = <<Read(INVOICES_FILE), Read(CLIENTS_FILE)>>
                           /\ UNCHANGED <<users, clients, invoices, now, issued, budget, inflight>>
                      ELSE LET invoice == invoices[found]
                               client == DeletedInvoiceClient(clients, invoice)
                           IN  /\ budget > 0
                               /\ request' = req
                               /\ clients' = IF client # 0
                                             THEN applyInvoiceDeleted(clients, client, invoice.total)
                                             ELSE clients
                               /\ invoices' = updatedInvoices(invoices, invoiceId)
                               /\ response' = [status |-> 200, body |-> [success |-> TRUE]]
                               /\ io' = <<Read(INVOICES_FILE), Read(CLIENTS_FILE)>>
                                        \o (IF client # 0 THEN <<Write(CLIENTS_FILE)>> ELSE <<>>)
                                        \o <<Write(INVOICES_FILE)>>
                               /\ budget' = budget - 1
                               /\ UNCHANGED <<users, now, issued, inflight>>

----------------------------------------------------------------------------
(* Dashboard *)

RECURSIVE Reduce(_, _, _)
\* Array.prototype.reduce((sum, x) => sum + f(x), acc)
Reduce(s, f(_), acc) == IF s = <<>> THEN acc ELSE Reduce(Tail(s), f, acc + f(Head(s)))

\* the stats computed over every user's records
DashboardStatsOfAll(cs, invs, uid) ==
    [totalClients |-> Len(cs),
     totalInvoices |-> Len(invs),
     totalTax |-> Reduce(invs, LAMBDA inv : inv.taxAmount, 0),
     totalRevenue |-> Reduce(invs, LAMBDA inv : inv.total, 0),
     clientSummary |-> [i \in DOMAIN cs |->
                          [email |-> cs[i].email,
                           invoiceCount |-> cs[i].invoiceCount,
                           totalPaid |-> cs[i].totalPaid]]]

\* GET /api/dashboard: the stats sent to caller uid
DashboardStats(cs, invs, uid) ==
    LET userClients == Filter(cs, LAMBDA c : c.userId = uid)
        mine == Filter(invs, LAMBDA inv : inv.userId = uid)
    IN  [totalClients |-> Len(userClients),
         totalInvoices |-> Len(mine),
         totalTax |-> Reduce(mine, LAMBDA inv : inv.taxAmount, 0),
         totalRevenue |-> Reduce(mine, LAMBDA inv : inv.total, 0),
         clientSummary |-> [i \in DOMAIN userClients |->
                              [email |-> userClients[i].email,
                               invoiceCount |-> userClients[i].invoiceCount,
                               totalPaid |-> userClients[i].totalPaid]]]

GetDashboard ==
    /\ Idle
    /\ \E token \in Presentable :
         LET req == [route |-> "GET /api/dashboard", token |-> token]
             auth == authenticateToken(token, now)
         IN  IF ~auth.next THEN Reject(req, auth.response)
             ELSE /\ request' = req
                  /\ response' = [status |-> 200,
                                  body |-> DashboardStats(clients, invoices, token.id)]
                  /\ io' = <<Read(CLIENTS_FILE), Read(INVOICES_FILE)>>
                  /\ UNCHANGED <<users, clients, invoices, now, issued, budget, inflight>>

----------------------------------------------------------------------------
(* Authentication routes *)

UpperDemoEmail == <<"T","E","M","P","U","S","E","R","@","g","m","a","i","l",".","c","o","m">>
AliceEmail == <<"a","@","x",".","c","o">>
UpperAliceEmail == <<"A","@","X",".","c","o">>
BobEmail == <<"b","@","x",".","c","o">>
Password == <<"s","e","c","r","e","t","1">>
ShortPassword == <<"p","w">>

\* the bodies sent to /api/login and /api/register
Emails == {DemoEmail, normalizeEmail(DemoEmail), UpperDemoEmail,
           AliceEmail, UpperAliceEmail, NotAnEmail}
Passwords == {DemoPassword, Password, ShortPassword}
Credentials == [email : Emails, password : Passwords]

\* body('email').isEmail(), body('password').isLength({ min: 6 })
validateCredentials(body) == isEmail(body.email) /\ isPassword(body.password)

\* users.find(u => u.email === email)
FindUser(us, email) == Find(us, LAMBDA u : u.email = email)

InvalidCredentials == [status |-> 401, body |-> [error |-> "Invalid credentials"]]

\* a login that tells an unknown address from a wrong password
LoginResponseLeaky(us, email, password, t) ==
    LET user == FindUser(us, email)
    IN  IF user = 0 THEN [status |-> 404, body |-> [error |-> "User not found"]]
        ELSE IF ~bcryptCompare(password, us[user].password) THEN InvalidCredentials
        ELSE [status |-> 200,
              body |-> [success |-> TRUE,
                        token |-> jwtSign(us[user].id, us[user].email, JWT_SECRET, t),
                        user |-> [id |-> us[user].id, email |-> us[user].email]]]

\* POST /api/login: the response to a body that passed validation, email
\* being the normalised address, at time t
LoginResponse(us, email, password, t) ==
    LET user == FindUser(us, email)
    IN  IF user = 0 THEN InvalidCredentials
        ELSE IF ~bcryptCompare(password, us[user].password) THEN InvalidCredentials
        ELSE [status |-> 200,
              body |-> [success |-> TRUE,
                        token |-> jwtSign(us[user].id, us[user].email, JWT_SECRET, t),
                        user |-> [id |-> us[user].id, email |-> us[user].email]]]

PostLogin ==
    /\ Idle
    /\ \E body \in Credentials :
         LET req == [route |-> "POST /api/login", token |-> NoToken, body |-> body]
             res == LoginResponse(users, normalizeEmail(body.email), body.password, now)
         IN  IF ~validateCredentials(body) THEN Reject(req, ValidationFailed)
             ELSE IF res.status # 200
             THEN /\ request' = req
                  /\ response' = res
                  /\ io' = <<Read(USERS_FILE)>>
                  /\ UNCHANGED <<users, clients, invoices, now, issued, budget, inflight>>
             ELSE /\ now <= MaxIssueTime
                  /\ Cardinality(issued \cup {res.body.token}) <= MaxTokens
                  /\ request' = req
                  /\ response' = res
                  /\ issued' = issued \cup {res.body.token}
                  /\ io' = <<Read(USERS_FILE)>>
                  /\ UNCHANGED <<users, clients, invoices, now, budget, inflight>>

\* POST /api/register: the record appended
NewUser(us, email, password) ==
    [id |-> Len(us) + 1, email |-> email, password |-> bcryptHash(password)]

PostRegister ==
    /\ Idle
    /\ \E body \in Credentials :
         LET req == [route |-> "POST /api/register", token |-> NoToken, body |-> body]
             email == normalizeEmail(body.email)
             existingUser == FindUser(users, email)
             newUser == NewUser(users, email, body.password)
             token == jwtSign(newUser.id, newUser.email, JWT_SECRET, now)
         IN  IF ~validateCredentials(body) THEN Reject(req, ValidationFailed)
             ELSE IF existingUser # 0
             THEN /\ request' = req
                  /\ response' = [status |-> 409, body |-> [error |-> "User already exists"]]
                  /\ io' = <<Read(USERS_FILE)>>
                  /\ UNCHANGED <<users, clients, invoices, now, issued, budget, inflight>>
             ELSE /\ budget > 0
                  /\ Len(users) < MaxUsers
                  /\ now <= MaxIssueTime
                  /\ Cardinality(issued \cup {token}) <= MaxTokens
                  /\ request' = req
                  /\ users' = Append(users, newUser)
                  /\ issued' = issued \cup {token}
                  /\ response' = [status |-> 201,
                                  body |-> [success |-> TRUE, token |-> token,
                                            user |-> [id |-> newUser.id,
                                                      email |-> newUser.email]]]
                  /\ io' = <<Read(USERS_FILE), Write(USERS_FILE)>>
                  /\ budget' = budget - 1
                  /\ UNCHANGED <<clients, invoices, now, inflight>>

\* an hour passes between two requests
Tick ==
    /\ Idle
    /\ now < MaxNow
    /\ now' = now + 1
    /\ UNCHANGED <<users, clients, invoices, issued, request, response, io, budget, inflight>>

----------------------------------------------------------------------------
(* Handlers step by step.  An async handler runs until its next await and  *)
(* is resumed when the awaited file operation settles; in between, the     *)
(* handlers of other connections run.  The local variables of a suspended  *)
(* handler (the arrays it loaded and has modified in memory) are kept with *)
(* it.                                                                     *)

\* the connections on which requests arrive
Conns == {"c1", "c2"}

\* the awaits a handler can be suspended at
ReadPcs == {"readClients", "readInvoices", "readUsers"}
WritePcs == {"writeClients", "writeInvoices", "writeUsers"}

FileOf(pc) ==
    CASE pc \in {"readClients", "writeClients"} -> CLIENTS_FILE
      [] pc \in {"readInvoices", "writeInvoices"} -> INVOICES_FILE
      [] pc \in {"readUsers", "writeUsers"} -> USERS_FILE

\* the handler of a request that passed its middleware, suspended at its
\* first readJSONFile
Handler(route, token, arg, pc) ==
    [route |-> route, token |-> token, arg |-> arg, pc |-> pc,
     clients |-> <<>>, invoices |-> <<>>, users |-> <<>>,
     data |-> <<>>, io |-> <<>>, response |-> NoResponse]

\* no handler on the connection
Free == Handler("none", NoToken, 0, "free")

\* the handler calls readJSONFile / bcrypt.hash and is suspended
Await(h, pc) == [h EXCEPT !.pc = pc]

\* the handler calls writeJSONFile(file, data) and is suspended
AwaitWrite(h, pc, data) == [h EXCEPT !.pc = pc, !.data = data]

\* res.status(status).json(body)
Respond(h, status, body) ==
    [h EXCEPT !.pc = "done", !.response = [status |-> status, body |-> body]]

\* the catch block of each handler
FailureBody(route) ==
    CASE route = "POST /api/clients" -> [error |-> "Failed to create client"]
      [] route = "DELETE /api/clients/:id" -> [error |-> "Failed to delete client"]
      [] route = "POST /api/invoices" -> [error |-> "Failed to create invoice"]
      [] route = "DELETE /api/invoices/:id" -> [error |-> "Failed to delete invoice"]
      [] route = "POST /api/register" -> [error |-> "Internal server error"]

\* POST /api/clients after the await at h.pc has settled
PostClientsResume(h) ==
    IF h.pc = "readClients"
    THEN LET newClient == NewClient(h.clients, normalizeEmail(h.arg.email), h.token.id)
             pushed == Append(h.clients, newClient)
         IN  AwaitWrite([h EXCEPT !.clients = pushed], "writeClients", pushed)
    ELSE Respond(h, 201, [success |-> TRUE, client |-> h.clients[Len(h.clients)]])

\* DELETE /api/clients/:id after the await at h.pc has settled
DeleteClientResume(h) ==
    IF h.pc = "readClients"
    THEN IF ~clientExists(h.clients, h.arg, h.token.id)
         THEN Respond(h, 404, [error |-> "Client not found"])
         ELSE AwaitWrite(h, "writeClients", updatedClients(h.clients, h.arg, h.token.id))
    ELSE Respond(h, 200, [success |-> TRUE])

\* POST /api/invoices after the await at h.pc has settled
PostInvoicesResume(h) ==
    CASE h.pc = "readInvoices" -> Await(h, "readClients")
      [] h.pc = "readClients" ->
           LET newInvoice == NewInvoice(h.invoices, h.arg, h.token.id)
               pushed == Append(h.invoices, newInvoice)
           IN  AwaitWrite([h EXCEPT !.invoices = pushed], "writeInvoices", pushed)
      [] h.pc = "writeInvoices" ->
           LET newInvoice == h.invoices[Len(h.invoices)]
               client == CreatedInvoiceClient(h.clients, newInvoice, h.token.id)
               updated == applyInvoiceCreated(h.clients, client, newInvoice.total)
           IN  IF client # 0
               THEN AwaitWrite([h EXCEPT !.clients = updated], "writeClients", updated)
               ELSE Respond(h, 201, [success |-> TRUE, invoice |-> newInvoice])
      [] h.pc = "writeClients" ->
           Respond(h, 201, [success |-> TRUE, invoice |-> h.invoices[Len(h.invoices)]])

\* a deletion that saves the invoices collection first and the client's
\* aggregates after it
DeleteInvoiceResumeInvoicesFirst(h) ==
    CASE h.pc = "readInvoices" -> Await(h, "readClients")
      [] h.pc = "readClients" ->
           IF FindInvoice(h.invoices, h.arg, h.token.id) = 0
           THEN Respond(h, 404, [error |-> "Invoice not found"])
           ELSE AwaitWrite(h, "writeInvoices", updatedInvoices(h.invoices, h.arg))
      [] h.pc = "writeInvoices" ->
           LET invoice == h.invoices[FindInvoice(h.invoices, h.arg, h.token.id)]
               client == DeletedInvoiceClient(h.clients, invoice)
               updated == applyInvoiceDeleted(h.clients, client, invoice.total)
           IN  IF client # 0
               THEN AwaitWrite([h EXCEPT !.clients = updated], "writeClients", updated)
               ELSE Respond(h, 200, [success |-> TRUE])
      [] h.pc = "writeClients" -> Respond(h, 200, [success |-> TRUE])

\* DELETE /api/invoices/:id after the await at h.pc has settled
DeleteInvoiceResume(h) ==
    CASE h.pc = "readInvoices" -> Await(h, "readClients")
      [] h.pc = "readClients" ->
           LET found == FindInvoice(h.invoices, h.arg, h.token.id)
               invoice == h.invoices[found]
               client == DeletedInvoiceClient(h.clients, invoice)
               updated == applyInvoiceDeleted(h.clients, client, invoice.total)
           IN  IF found = 0 THEN Respond(h, 404, [error |-> "Invoice not found"])
               ELSE IF client # 0
               THEN AwaitWrite([h EXCEPT !.clients = updated], "writeClients", updated)
               ELSE AwaitWrite(h, "writeInvoices", updatedInvoices(h.invoices, h.arg))
      [] h.pc = "writeClients" ->
           AwaitWrite(h, "writeInvoices", updatedInvoices(h.invoices, h.arg))
      [] h.pc = "writeInvoices" -> Respond(h, 200, [success |-> TRUE])

\* POST /api/register after the await at h.pc has settled, at time t
PostRegisterResume(h, t) ==
    CASE h.pc = "readUsers" ->
           IF FindUser(h.users, normalizeEmail(h.arg.email)) # 0
           THEN Respond(h, 409, [error |-> "User already exists"])
           ELSE Await(h, "hash")
      [] h.pc = "hash" ->
           LET newUser == NewUser(h.users, normalizeEmail(h.arg.email), h.arg.password)
               pushed == Append(h.users, newUser)
           IN  AwaitWrite([h EXCEPT !.users = pushed], "writeUsers", pushed)
      [] h.pc = "writeUsers" ->
           LET newUser == h.users[Len(h.users)]
           IN  Respond(h, 201,
                       [success |-> TRUE,
                        token |-> jwtSign(newUser.id, newUser.email, JWT_SECRET, t),
                        user |-> [id |-> newUser.id, email |-> newUser.email]])

Resume(h, t) ==
    CASE h.route = "POST /api/clients" -> PostClientsResume(h)
      [] h.route = "DELETE /api/clients/:id" -> DeleteClientResume(h)
      [] h.route = "POST /api/invoices" -> PostInvoicesResume(h)
      [] h.route = "DELETE /api/invoices/:id" -> DeleteInvoiceResume(h)
      [] h.route = "POST /api/register" -> PostRegisterResume(h, t)

\* the bodies of the requests whose handlers are followed step by step
RegisterBodies == {[email |-> UpperDemoEmail, password |-> Password]}
StepRequests ==
    {[route |-> "POST /api/clients", arg |-> [email |-> ClientEmail], pc |-> "readClients"]}
    \cup {[route |-> "DELETE /api/clients/:id", arg |-> id, pc |-> "readClients"] :
             id \in 1..MaxClients}
    \cup {[route |-> "POST /api/invoices", arg |-> body, pc |-> "readInvoices"] :
             body \in {b \in InvoiceBodies : validateInvoice(b)}}
    \cup {[route |-> "DELETE /api/invoices/:id", arg |-> id, pc |-> "readInvoices"] :
             id \in 1..MaxInvoices}
    \cup {[route |-> "POST /api/register", arg |-> body, pc |-> "readUsers"] :
             body \in RegisterBodies}

\* a request passes authenticateToken and its validators; its handler starts
\* and is suspended at its first readJSONFile
Accept ==
    /\ budget > 0
    /\ \E c \in Conns, r \in StepRequests :
         /\ inflight[c] = Free
         /\ \E token \in IF r.route = "POST /api/register" THEN {NoToken}
                         ELSE {tk \in issued : authenticateToken(tk, now).next} :
              inflight' = [inflight EXCEPT ![c] = Handler(r.route, token, r.arg, r.pc)]
    /\ budget' = budget - 1
    /\ UNCHANGED <<users, clients, invoices, now, issued, request, response, io>>

\* readJSONFile(filename): the parsed content of the file
readJSONFile(filename) ==
    CASE filename = CLIENTS_FILE -> clients
      [] filename = INVOICES_FILE -> invoices
      [] filename = USERS_FILE -> users

\* an awaited readJSONFile settles and the handler runs to its next await
ReadDone ==
    \E c \in Conns :
        LET h == inflight[c]
            file == FileOf(h.pc)
            content == readJSONFile(file)
            loaded == [h EXCEPT !.clients = IF file = CLIENTS_FILE THEN content ELSE @,
                                !.invoices = IF file = INVOICES_FILE THEN content ELSE @,
                                !.users = IF file = USERS_FILE THEN content ELSE @,
                                !.io = Append(@, Read(file))]
        IN  /\ h.pc \in ReadPcs
            /\ inflight' = [inflight EXCEPT ![c] = Resume(loaded, now)]
            /\ UNCHANGED <<users, clients, invoices, now, issued, request, response, io, budget>>

\* an awaited bcrypt.hash settles
HashDone ==
    \E c \in Conns :
        /\ inflight[c].pc = "hash"
        /\ inflight' = [inflight EXCEPT ![c] = Resume(inflight[c], now)]
        /\ UNCHANGED <<users, clients, invoices, now, issued, request, response, io, budget>>

\* a save that adds the records of data to those stored
writeFileMerging(content, data) ==
    content \o SelectSeq(data, LAMBDA r : \A i \in DOMAIN content : content[i] # r)

\* fs.writeFile(filename, JSON.stringify(data)): the file's content after a
\* write that succeeded is data, whatever it was
writeFile(content, data) == data

\* the tokens that a response hands to its caller
TokensIn(h) ==
    IF h.pc = "done" /\ h.route = "POST /api/register" /\ h.response.status = 201
    THEN {h.response.body.token} ELSE {}

\* an awaited writeJSONFile settles without error and the handler runs to
\* its next await
WriteDone ==
    \E c \in Conns :
        LET h == inflight[c]
            file == FileOf(h.pc)
            written == writeFile(readJSONFile(file), h.data)
            resumed == Resume([h EXCEPT !.io = Append(@, Write(file))], now)
        IN  /\ h.pc \in WritePcs
            /\ clients' = IF file = CLIENTS_FILE THEN written ELSE clients
            /\ invoices' = IF file = INVOICES_FILE THEN written ELSE invoices
            /\ users' = IF file = USERS_FILE THEN written ELSE users
            /\ inflight' = [inflight EXCEPT ![c] = resumed]
            /\ issued' = issued \cup TokensIn(resumed)
            /\ UNCHANGED <<now, request, response, io, budget>>

WriteFailure(f) == <<"write failed", f>>

\* fs.writeFile rejects.  It opens the file with flag 'w', which truncates
\* it: a rejection at the open leaves the file as it was, a rejection after
\* it leaves the file cut short, and readJSONFile then answers [] for it
\* (JSON.parse throws, the catch returns []).
FailedWriteOutcomes(content) == {content, <<>>}

\* an awaited writeJSONFile rejects: it logs and rethrows, the handler's
\* catch answers 500
WriteFailed ==
    \E c \in Conns :
        LET h == inflight[c]
            file == FileOf(h.pc)
        IN  /\ h.pc \in WritePcs
            /\ \E content \in FailedWriteOutcomes(readJSONFile(file)) :
                 /\ clients' = IF file = CLIENTS_FILE THEN content ELSE clients
                 /\ invoices' = IF file = INVOICES_FILE THEN content ELSE invoices
                 /\ users' = IF file = USERS_FILE THEN content ELSE users
            /\ inflight' = [inflight EXCEPT ![c] =
                              Respond([h EXCEPT !.io = Append(@, WriteFailure(file))],
                                      500, FailureBody(h.route))]
            /\ UNCHANGED <<now, issued, request, response, io, budget>>

\* the response has been sent; the connection takes its next request
Close ==
    \E c \in Conns :
        /\ inflight[c].pc = "done"
        /\ inflight' = [inflight EXCEPT ![c] = Free]
        /\ UNCHANGED <<users, clients, invoices, now, issued, request, response, io, budget>>

\* SIGTERM / SIGINT: process.exit(0) while handlers are suspended; they
\* never resume, the files stay as they are, and the server is started again
Shutdown ==
    /\ \E c \in Conns : inflight[c].pc \notin {"free", "done"}
    /\ inflight' = [c \in Conns |-> Free]
    /\ UNCHANGED <<users, clients, invoices, now, issued, request, response, io, budget>>

----------------------------------------------------------------------------
(* The server with two registered accounts, each holding a fresh token,   *)
(* and one token that has expired: a state reached by ensureDataDir, two   *)
(* registrations, 25 hours and a login.                                    *)

InitData(writes) ==
    /\ users = <<DemoUser,
                 [id |-> 2, email |-> AliceEmail, password |-> bcryptHash(Password)],
                 [id |-> 3, email |-> BobEmail, password |-> bcryptHash(Password)]>>
    /\ clients = <<>>
    /\ invoices = <<>>
    /\ now = 25
    /\ issued = {jwtSign(2, AliceEmail, JWT_SECRET, 0),
                 jwtSign(2, AliceEmail, JWT_SECRET, 25),
                 jwtSign(3, BobEmail, JWT_SECRET, 25)}
    /\ request = NoRequest
    /\ response = NoResponse
    /\ io = <<>>
    /\ budget = writes
    /\ inflight = [c \in Conns |-> Free]

\* the response has been sent; the server takes the next request
Finish ==
    /\ ~Idle
    /\ request' = NoRequest
    /\ response' = NoResponse
    /\ io' = <<>>
    /\ UNCHANGED <<users, clients, invoices, now, issued, budget, inflight>>

\* every client, invoice and dashboard route, any caller
Next ==
    \/ Finish
    \/ GetClients
    \/ PostClients
    \/ DeleteClient
    \/ GetInvoices
    \/ PostInvoices
    \/ DeleteInvoice
    \/ GetDashboard

Spec == InitData(MaxUpdates) /\ [][Next]_vars

\* client creations and deletions only
NextClients ==
    \/ Finish
    \/ GetClients
    \/ PostClients
    \/ DeleteClient

SpecClients == InitData(MaxClientUpdates) /\ [][NextClients]_vars

\* invoice creations and deletions on the clients that callers create
NextInvoices ==
    \/ Finish
    \/ PostClients
    \/ PostInvoices
    \/ DeleteInvoice

SpecInvoices == InitData(MaxInvoiceUpdates) /\ [][NextInvoices]_vars

\* ensureDataDir on first run: the demo account and two empty collections
Init ==
    /\ users = <<DemoUser>>
    /\ clients = <<>>
    /\ invoices = <<>>
    /\ now = 0
    /\ issued = {}
    /\ request = NoRequest
    /\ response = NoResponse
    /\ io = <<>>
    /\ budget = MaxUpdates
    /\ inflight = [c \in Conns |-> Free]

\* registration, login, the clock, and a protected route
NextAuth ==
    \/ Finish
    \/ Tick
    \/ PostLogin
    \/ PostRegister
    \/ GetClients

SpecAuth == Init /\ [][NextAuth]_vars

\* handlers of writing requests on two connections, step by step, with
\* failing saves and restarts
NextSteps ==
    \/ Accept
    \/ ReadDone
    \/ HashDone
    \/ WriteDone
    \/ WriteFailed
    \/ Close
    \/ Shutdown

\* the two accounts of InitData after the first of them has created a
\* client and an invoice for it
InitSteps ==
    /\ users = <<DemoUser,
                 [id |-> 2, email |-> AliceEmail, password |-> bcryptHash(Password)],
                 [id |-> 3, email |-> BobEmail, password |-> bcryptHash(Password)]>>
    /\ clients = <<[id |-> 1, email |-> ClientEmail, invoiceCount |-> 1, totalPaid |-> 100,
                    userId |-> 2]>>
    /\ invoices = <<[id |-> 1, clientId |-> 1, total |-> 100, taxAmount |-> 10, userId |-> 2]>>
    /\ now = 25
    /\ issued = {jwtSign(2, AliceEmail, JWT_SECRET, 25), jwtSign(3, BobEmail, JWT_SECRET, 25)}
    /\ request = NoRequest
    /\ response = NoResponse
    /\ io = <<>>
    /\ budget = MaxRequests
    /\ inflight = [c \in Conns |-> Free]

SpecSteps == InitSteps /\ [][NextSteps]_vars

----------------------------------------------------------------------------
(* Properties *)

ProtectedRoutes == {"GET /api/clients", "POST /api/clients", "DELETE /api/clients/:id",
                    "GET /api/invoices", "POST /api/invoices", "DELETE /api/invoices/:id",
                    "GET /api/dashboard"}

RECURSIVE SumTotals(_)
SumTotals(invs) == IF invs = <<>> THEN 0 ELSE Head(invs).total + SumTotals(Tail(invs))

\* the stored invoices that carry the id of client c
Referencing(c) == Filter(invoices, LAMBDA inv : inv.clientId = c.id)

\* C1: after any failure-free sequence of complete invoice creations and
\* deletions, every client's invoiceCount is the number of stored invoices
\* that reference it and its totalPaid is the sum of their totals.
C1_AggregatesMatchInvoices ==
    \A i \in DOMAIN clients :
        /\ clients[i].invoiceCount = Len(Referencing(clients[i]))
        /\ clients[i].totalPaid = SumTotals(Referencing(clients[i]))

\* C2: the client list sent to an authenticated caller holds exactly the
\* clients whose userId is the caller's id.
C2_ClientListIsOwn ==
    (request.route = "GET /api/clients" /\ response.status = 200)
        => response.body.data = Filter(clients, LAMBDA c : c.userId = request.token.id)

\* C3: a client deletion by caller U with id k answers NotFound and leaves
\* the clients collection as it was when U owns no client with id k; when it
\* succeeds, every client of another user is still stored, unchanged.
C3_ClientDeleteFrame ==
    [][ (request'.route = "DELETE /api/clients/:id" /\ response'.status \notin {401, 403})
        => IF \E i \in DOMAIN clients :
                 clients[i].id = request'.id /\ clients[i].userId = request'.token.id
           THEN /\ response'.status = 200
                /\ \A i \in DOMAIN clients :
                     clients[i].userId # request'.token.id
                         => \E j \in DOMAIN clients' : clients'[j] = clients[i]
           ELSE /\ response'.status = 404
                /\ clients' = clients ]_vars

\* C4: deleting an invoice id for which the caller owns no invoice (absent,
\* or another user's) answers NotFound and leaves users, clients and
\* invoices as they were.
C4_DeleteForeignInvoiceNotFound ==
    [][ ( /\ request'.route = "DELETE /api/invoices/:id"
          /\ response'.status \notin {401, 403}
          /\ ~\E i \in DOMAIN invoices :
                 invoices[i].id = request'.id /\ invoices[i].userId = request'.token.id )
        => /\ response'.status = 404
           /\ UNCHANGED <<users, clients, invoices>> ]_vars

\* an authenticated caller was answered NotFound for an invoice id that
\* another user's invoice carries
C4_Witness ==
    /\ request.route = "DELETE /api/invoices/:id"
    /\ response.status = 404
    /\ \E i \in DOMAIN invoices :
         invoices[i].id = request.id /\ invoices[i].userId # request.token.id

\* C5: no two stored clients share an id, no two stored invoices share an
\* id, and an id just assigned is greater than the ids of the records
\* stored before it.
C5_IdsUniqueAndIncreasing ==
    /\ \A i, j \in DOMAIN clients : clients[i].id = clients[j].id => i = j
    /\ \A i, j \in DOMAIN invoices : invoices[i].id = invoices[j].id => i = j
    /\ (request.route = "POST /api/clients" /\ response.status = 201)
         => \A i \in 1..(Len(clients) - 1) : clients[i].id < response.body.client.id
    /\ (request.route = "POST /api/invoices" /\ response.status = 201)
         => \A i \in 1..(Len(invoices) - 1) : invoices[i].id < response.body.invoice.id

\* C6: every client's invoiceCount is at least 0.
C6_InvoiceCountNonNegative ==
    \A i \in DOMAIN clients : clients[i].invoiceCount >= 0

\* the credential of the request is one the server issued and it has not
\* run out at time t
GoodCredential(token, t) == token \in issued /\ t < token.iat + ExpiresIn

\* C7: a client, invoice or dashboard request whose credential is missing, malformed,
\* wrongly signed or expired is rejected, and the request reads and writes
\* no collection.
C7_RejectedBeforeDataAccess ==
    [][ (request'.route \in ProtectedRoutes /\ ~GoodCredential(request'.token, now))
        => /\ response'.status \in {401, 403}
           /\ io' = <<>>
           /\ UNCHANGED <<users, clients, invoices>> ]_vars

\* a request with an expired token of the server's own was turned away
\* while the collections held records
C7_Witness ==
    /\ request.route = "DELETE /api/invoices/:id"
    /\ request.token \in issued
    /\ now >= request.token.exp
    /\ response.status = 403
    /\ invoices # <<>>
    /\ clients # <<>>

\* C8 as amended: a token issued at time T is accepted at every time before
\* T + 24h and rejected from T + 24h on, whatever the collections hold.
C8_AcceptedUntilExpiry ==
    (request.route = "GET /api/clients" /\ request.token \in issued)
        => (response.status = 200) = (now < request.token.iat + ExpiresIn)

\* C8 as claimed: accepted at every time up to T + 24h, rejected after it.
C8_AcceptedThroughExpiry ==
    (request.route = "GET /api/clients" /\ request.token \in issued)
        => (response.status = 200) = (now <= request.token.iat + ExpiresIn)

\* a token issued by the server is presented exactly 24 hours after it was
\* issued, and refused
C8_Witness ==
    /\ request.route = "GET /api/clients"
    /\ request.token \in issued
    /\ now = request.token.iat + ExpiresIn
    /\ response.status = 403

\* a and b are the same address up to letter case, and not the same
DiffersOnlyInCase(a, b) ==
    /\ a # b
    /\ Len(a) = Len(b)
    /\ \A i \in DOMAIN a : toLowerCase(a[i]) = toLowerCase(b[i])

\* C9: a registration whose email differs only in letter case from the
\* email of a stored user is answered Conflict and leaves users unchanged.
C9_CaseVariantConflict ==
    [][ ( /\ request'.route = "POST /api/register"
          /\ validateCredentials(request'.body)
          /\ \E i \in DOMAIN users : DiffersOnlyInCase(users[i].email, request'.body.email) )
        => /\ response'.status = 409
           /\ users' = users ]_vars

\* a login body that passes validation and names no stored user, or names
\* one and carries a password that is not that user's
FailingLogin(body) ==
    /\ validateCredentials(body)
    /\ LET user == FindUser(users, normalizeEmail(body.email))
       IN  user = 0 \/ ~bcryptCompare(body.password, users[user].password)

C11_UnknownClientAddsNoInvoice ==
    [][ ( /\ request'.route = "POST /api/invoices"
          /\ response'.status \notin {401, 403}
          /\ ~\E i \in DOMAIN clients : clients[i].id = request'.body.clientId )
        => invoices' = invoices ]_vars

\* the positions of the stored clients / invoices that user uid owns
OwnedClients(uid) == {i \in DOMAIN clients : clients[i].userId = uid}
OwnedInvoices(uid) == {i \in DOMAIN invoices : invoices[i].userId = uid}

RECURSIVE SumTotalAt(_)
SumTotalAt(I) ==
    IF I = {} THEN 0
    ELSE LET i == CHOOSE i \in I : TRUE IN invoices[i].total + SumTotalAt(I \ {i})

RECURSIVE SumTaxAt(_)
SumTaxAt(I) ==
    IF I = {} THEN 0
    ELSE LET i == CHOOSE i \in I : TRUE IN invoices[i].taxAmount + SumTaxAt(I \ {i})

\* C12: the dashboard sent to caller U reports the numbers of clients and
\* invoices that U owns and the sums of taxAmount and total over U's
\* invoices as stored at that moment; with no invoice of U stored, both
\* sums are 0.
C12_DashboardTotals ==
    (request.route = "GET /api/dashboard" /\ response.status = 200)
        => LET uid == request.token.id
               stats == response.body
           IN  /\ stats.totalClients = Cardinality(OwnedClients(uid))
               /\ stats.totalInvoices = Cardinality(OwnedInvoices(uid))
               /\ stats.totalTax = SumTaxAt(OwnedInvoices(uid))
               /\ stats.totalRevenue = SumTotalAt(OwnedInvoices(uid))
               /\ OwnedInvoices(uid) = {} => (stats.totalRevenue = 0 /\ stats.totalTax = 0)

\* a dashboard was computed for a caller who owns one of two stored
\* invoices and one of two stored clients
C12_Witness ==
    /\ request.route = "GET /api/dashboard"
    /\ response.status = 200
    /\ Len(invoices) = 2
    /\ Len(clients) = 2
    /\ response.body.totalInvoices = 1
    /\ response.body.totalClients = 1
    /\ response.body.totalRevenue > 0

\* the position in invoices of the k-th invoice that user uid owns
KthOwned(uid, k) ==
    CHOOSE i \in OwnedInvoices(uid) :
        Cardinality({j \in OwnedInvoices(uid) : j <= i}) = k

\* C13: the invoice list sent to an authenticated caller holds exactly the
\* invoices whose userId is the caller's id, in stored order.
C13_InvoiceListIsOwn ==
    (request.route = "GET /api/invoices" /\ response.status = 200)
        => LET uid == request.token.id
               list == response.body.data
           IN  /\ Len(list) = Cardinality(OwnedInvoices(uid))
               /\ \A k \in DOMAIN list : list[k] = invoices[KthOwned(uid, k)]

\* a list was sent to a caller while another user's invoice was stored
\* before the caller's own
C13_Witness ==
    /\ request.route = "GET /api/invoices"
    /\ response.status = 200
    /\ Len(invoices) = 2
    /\ invoices[1].userId # request.token.id
    /\ invoices[2].userId = request.token.id
    /\ Len(response.body.data) = 1


\* the ids of the stored users
UserIds == {users[i].id : i \in DOMAIN users}

\* C16: a successful client deletion leaves the invoices collection as it
\* was: the invoices that carry the deleted client's id are still stored
\* with their clientId and total, and every user's invoice list and
\* dashboard totals are what they were.
C16_ClientDeleteKeepsInvoices ==
    [][ (request'.route = "DELETE /api/clients/:id" /\ response'.status = 200)
        => /\ invoices' = invoices
           /\ \A uid \in UserIds :
                /\ userInvoices(invoices', uid) = userInvoices(invoices, uid)
                /\ \A f \in {"totalInvoices", "totalTax", "totalRevenue"} :
                     DashboardStats(clients', invoices', uid)[f]
                         = DashboardStats(clients, invoices, uid)[f] ]_vars

\* a client was deleted while an invoice carries its id, and no client with
\* that id is left
C16_Witness ==
    /\ request.route = "DELETE /api/clients/:id"
    /\ response.status = 200
    /\ \E i \in DOMAIN invoices : invoices[i].clientId = request.id
    /\ ~\E i \in DOMAIN clients : clients[i].id = request.id

\* C18: a successful invoice deletion by caller U with id k removes exactly
\* one invoice, which U owns and which has id k; every invoice of another
\* user is still stored.
C18_InvoiceDeleteFrame ==
    [][ (request'.route = "DELETE /api/invoices/:id" /\ response'.status = 200)
        => /\ Len(invoices') = Len(invoices) - 1
           /\ \A i \in DOMAIN invoices :
                IF \E j \in DOMAIN invoices' : invoices'[j] = invoices[i]
                THEN TRUE
                ELSE /\ invoices[i].userId = request'.token.id
                     /\ invoices[i].id = request'.id
           /\ \A i \in DOMAIN invoices :
                invoices[i].userId # request'.token.id
                    => \E j \in DOMAIN invoices' : invoices'[j] = invoices[i] ]_vars

\* C19: an invoice creation or deletion by caller U leaves invoiceCount and
\* totalPaid of every client of another user as they were.
C19_ForeignAggregatesUntouched ==
    [][ ( /\ request'.route \in {"POST /api/invoices", "DELETE /api/invoices/:id"}
          /\ response'.status \notin {401, 403} )
        => \A i \in DOMAIN clients :
             clients[i].userId # request'.token.id
                 => /\ i \in DOMAIN clients'
                    /\ clients'[i].invoiceCount = clients[i].invoiceCount
                    /\ clients'[i].totalPaid = clients[i].totalPaid ]_vars

\* C20: a login with the email of a stored user, as stored, and that user's
\* password succeeds and issues a credential; the stored emails are in the
\* normalised form that login compares against.
C20_StoredUserCanLogIn ==
    ( /\ request.route = "POST /api/login"
      /\ validateCredentials(request.body)
      /\ \E i \in DOMAIN users :
           /\ users[i].email = request.body.email
           /\ bcryptCompare(request.body.password, users[i].password) )
        => /\ response.status = 200
           /\ response.body.token \in issued
           /\ \A i \in DOMAIN users : users[i].email = normalizeEmail(users[i].email)


\* the array a creating handler loaded, before its own push
Loaded(h) ==
    IF h.route = "POST /api/clients"
    THEN SubSeq(h.clients, 1, Len(h.clients) - 1)
    ELSE SubSeq(h.invoices, 1, Len(h.invoices) - 1)

\* in this step the save that handler h awaits settles without error
SaveSettles(h, h2, file) ==
    /\ h.pc \in WritePcs
    /\ FileOf(h.pc) = file
    /\ h2.pc # "free"
    /\ h2.io = Append(h.io, Write(file))

\* C14: when two creations on two connections loaded the same snapshot and
\* the first has saved and reported success, the save of the second
\* replaces the collection by its own snapshot plus its own record: one
\* record more than the snapshot, though both requests report success.
C14_LastSaveWins ==
    [][ \A c, d \in Conns :
          LET h == inflight[c]
              g == inflight[d]
              h2 == inflight'[c]
          IN  /\ ( /\ c # d
                   /\ h.route = "POST /api/clients" /\ g.route = "POST /api/clients"
                   /\ g.pc = "done" /\ g.response.status = 201
                   /\ SaveSettles(h, h2, CLIENTS_FILE)
                   /\ Loaded(h) = Loaded(g) )
                 => /\ clients' = Append(Loaded(g), h.clients[Len(h.clients)])
                    /\ h2.response.status = 201
              /\ ( /\ c # d
                   /\ h.route = "POST /api/invoices" /\ g.route = "POST /api/invoices"
                   /\ g.pc = "done" /\ g.response.status = 201
                   /\ SaveSettles(h, h2, INVOICES_FILE)
                   /\ Loaded(h) = Loaded(g) )
                 => /\ invoices' = Append(Loaded(g), h.invoices[Len(h.invoices)])
                    /\ h2.pc = "writeClients" \/ h2.response.status = 201 ]_vars

\* two users' client creations loaded the same snapshot, both were answered
\* 201, and the stored collection holds the record of one of them only
C14_Witness ==
    \E c, d \in Conns :
        LET h == inflight[c]
            g == inflight[d]
        IN  /\ c # d
            /\ h.pc = "done" /\ g.pc = "done"
            /\ h.route = "POST /api/clients" /\ g.route = "POST /api/clients"
            /\ h.response.status = 201 /\ g.response.status = 201
            /\ h.token.id # g.token.id
            /\ Loaded(h) = Loaded(g)
            /\ clients = Append(Loaded(h), h.response.body.client)
            /\ \A i \in DOMAIN clients : clients[i] # g.response.body.client

InLog(log, entry) == \E i \in DOMAIN log : log[i] = entry

\* handler h is suspended at the second of its two saves
AtSecondSave(h) ==
    \/ h.route = "POST /api/invoices" /\ h.pc = "writeClients"
    \/ /\ h.route = "DELETE /api/invoices/:id" /\ h.pc = "writeInvoices"
       /\ InLog(h.io, Write(CLIENTS_FILE))

\* in this step handler h fails: its awaited save rejects, or the process
\* exits
Fails(h, h2) ==
    \/ h.pc \notin {"free", "done"} /\ h2 = Free
    \/ h.pc \in WritePcs /\ h2.pc = "done"
       /\ h2.io = Append(h.io, WriteFailure(FileOf(h.pc)))

\* C15: an invoice creation saves the invoices collection first, with the
\* client's aggregates not yet saved, and the clients collection second; an
\* invoice deletion saves the client's decremented aggregates first, with
\* the invoice still stored, and the invoices collection second; when the
\* handler fails between its two saves, what the first save wrote stays.
C15_TwoSavesNoRollback ==
    [][ \A c \in Conns :
          LET h == inflight[c]
              h2 == inflight'[c]
          IN  /\ (h.route = "POST /api/invoices" /\ SaveSettles(h, h2, INVOICES_FILE))
                 => /\ ~InLog(h.io, Write(CLIENTS_FILE))
                    /\ invoices' = h.invoices
                    /\ clients' = clients
              /\ (h.route = "POST /api/invoices" /\ SaveSettles(h, h2, CLIENTS_FILE))
                 => /\ InLog(h.io, Write(INVOICES_FILE))
                    /\ clients' = h.clients
                    /\ invoices' = invoices
              /\ (h.route = "DELETE /api/invoices/:id" /\ SaveSettles(h, h2, CLIENTS_FILE))
                 => /\ ~InLog(h.io, Write(INVOICES_FILE))
                    /\ clients' = h.clients
                    /\ invoices' = invoices
                    /\ h2.pc = "writeInvoices"
              /\ (h.route = "DELETE /api/invoices/:id" /\ SaveSettles(h, h2, INVOICES_FILE))
                 => /\ DeletedInvoiceClient(h.clients,
                                            h.invoices[FindInvoice(h.invoices, h.arg, h.token.id)]) # 0
                       => InLog(h.io, Write(CLIENTS_FILE))
                    /\ clients' = clients
              /\ (AtSecondSave(h) /\ Fails(h, h2))
                 => IF h.route = "POST /api/invoices"
                    THEN invoices' = invoices
                    ELSE clients' = clients ]_vars

\* a creation failed at its second save and left its invoice stored with the
\* client's aggregates not counting it; then a deletion failed at its second
\* save and left the aggregates decremented with the invoice still stored
C15_Witness ==
    \E c, d \in Conns :
        LET h == inflight[c]
            g == inflight[d]
        IN  /\ h.pc = "done" /\ h.route = "POST /api/invoices"
            /\ h.response.status = 500
            /\ InLog(h.io, Write(INVOICES_FILE))
            /\ g.pc = "done" /\ g.route = "DELETE /api/invoices/:id"
            /\ g.response.status = 500
            /\ InLog(g.io, Write(CLIENTS_FILE))
            /\ invoices = h.invoices
            /\ clients = g.clients
            /\ \E i \in DOMAIN invoices : invoices[i].id = g.arg /\ invoices[i].userId = g.token.id
            /\ \E i \in DOMAIN clients :
                 /\ clients[i].userId = h.token.id
                 /\ clients[i].id = h.arg.clientId
                 /\ clients[i].invoiceCount < Len(Referencing(clients[i]))

\* C17: when a save rejects during a register, client or invoice mutation,
\* the request is answered with a failure and not with a success, and the
\* collection whose save rejected keeps the content it had.
C17_FailedSaveKeepsContent ==
    [][ \A c \in Conns :
          LET h == inflight[c]
              h2 == inflight'[c]
              file == FileOf(h.pc)
          IN  ( /\ h.pc \in WritePcs
                /\ h2.pc = "done"
                /\ h2.io = Append(h.io, WriteFailure(file)) )
              => /\ h2.response.status >= 500
                 /\ "success" \notin DOMAIN h2.response.body
                 /\ file = CLIENTS_FILE => clients' = clients
                 /\ file = INVOICES_FILE => invoices' = invoices
                 /\ file = USERS_FILE => users' = users ]_vars

\* the first half of C17 alone: the failure is reported, never a success
SaveFailureIsReported ==
    [][ \A c \in Conns :
          LET h == inflight[c]
              h2 == inflight'[c]
          IN  ( /\ h.pc \in WritePcs
                /\ h2.pc = "done"
                /\ h2.io = Append(h.io, WriteFailure(FileOf(h.pc))) )
              => /\ h2.response = [status |-> 500, body |-> FailureBody(h.route)]
                 /\ "success" \notin DOMAIN h2.response.body
                 /\ issued' = issued ]_vars


=============================================================================
